---- MODULE Spec2Model ----
(***************************************************************************)
(* The forgetting metrics of avalanche/evaluation/metrics/forgetting.py:   *)
(* the standalone Forgetting tracker, and the ExperienceForgetting and     *)
(* StreamForgetting plugin metrics driven by the strategy's callbacks.     *)
(*                                                                         *)
(* Accuracies are scaled integers (tenths): 9 stands for 0.9.  A Python    *)
(* dict is a sequence of <<key, value>> pairs in insertion order.  The     *)
(* Python value None is the key None (an integer no experience id takes)   *)
(* where an experience id is expected, and the tagged value NoneVal where  *)
(* a metric value is expected.                                             *)
(***************************************************************************)
EXTENDS Integers, Sequences, FiniteSets, TLC

\* ------------------------------------------------------------------ bounds
\* Experience ids are 0..MaxKey.
MaxKey == 1
\* before_training_exp calls in one run.
MaxTrains == 2
\* Eval streams (before_eval calls) in one run.
MaxStreams == 2
\* Eval streams in one run of the scripted scenarios.
ScriptStreams == 3
\* Experiences evaluated in one eval stream.
MaxEvalExps == 2
\* Calls of forgetting_metrics in one run.
MaxCalls == 4
\* The value of an attribute holding Python's None where an experience id
\* is expected (eval_exp_id, train_exp_id, the default of result's k).
None == -1

Keys == 0..MaxKey
\* Accuracies an evaluation can measure, in tenths.
Accs == {7, 9}
\* Accuracies of the scripted scenarios.
ScriptAccs == {5, 7, 8, 9}
\* Values given to the standalone tracker.
Vals == {7, 9}

\* ------------------------------------------------------------ Python dict
dict_keys(d) == {d[i][1] : i \in 1..Len(d)}

dict_get(d, k) == d[CHOOSE i \in 1..Len(d) : d[i][1] = k][2]

\* d[k] = v: an existing key keeps its place, a new key goes last.
dict_set(d, k, v) ==
  IF k \in dict_keys(d)
  THEN [i \in 1..Len(d) |-> IF d[i][1] = k THEN <<k, v>> ELSE d[i]]
  ELSE Append(d, <<k, v>>)

\* ------------------------------------------------------- returned values
NoneVal == [tag |-> "none"]
Float(v) == [tag |-> "float", val |-> v]
Dict(m) == [tag |-> "dict", val |-> m]

\* ------------------------------------------------------ class Forgetting
Forgetting_init == [initial |-> <<>>, last |-> <<>>]

\* update_initial keeping the value a key already has.
update_initial_once(f, k, v) ==
  IF k \in dict_keys(f.initial)
  THEN f
  ELSE [f EXCEPT !.initial = dict_set(@, k, v)]

update_initial(f, k, v) == [f EXCEPT !.initial = dict_set(@, k, v)]

update_last(f, k, v) == [f EXCEPT !.last = dict_set(@, k, v)]

\* update taking the first value seen for a key as its initial value.
update_first_seen(f, k, v, initial) ==
  IF initial \/ k \notin dict_keys(f.initial)
  THEN update_initial(f, k, v)
  ELSE update_last(f, k, v)

update(f, k, v, initial) ==
  IF initial THEN update_initial(f, k, v) ELSE update_last(f, k, v)

\* result with the operands of the difference exchanged.
result_swapped(f, k) ==
  IF k # None
  THEN IF k \in dict_keys(f.initial) /\ k \in dict_keys(f.last)
       THEN Float(dict_get(f.last, k) - dict_get(f.initial, k))
       ELSE NoneVal
  ELSE LET both_keys == dict_keys(f.initial) \cap dict_keys(f.last)
       IN  Dict([b \in both_keys |->
                   dict_get(f.last, b) - dict_get(f.initial, b)])

\* result() keeping every key of initial, a missing last value counting 0.
result_initial_keys(f, k) ==
  IF k # None
  THEN IF k \in dict_keys(f.initial) /\ k \in dict_keys(f.last)
       THEN Float(dict_get(f.initial, k) - dict_get(f.last, k))
       ELSE NoneVal
  ELSE Dict([b \in dict_keys(f.initial) |->
               IF b \in dict_keys(f.last)
               THEN dict_get(f.initial, b) - dict_get(f.last, b)
               ELSE dict_get(f.initial, b)])

result(f, k) ==
  IF k # None
  THEN IF k \in dict_keys(f.initial) /\ k \in dict_keys(f.last)
       THEN Float(dict_get(f.initial, k) - dict_get(f.last, k))
       ELSE NoneVal
  ELSE LET both_keys == dict_keys(f.initial) \cap dict_keys(f.last)
       IN  Dict([b \in both_keys |->
                   dict_get(f.initial, b) - dict_get(f.last, b)])

\* result reading the last value away: the key's last entry is gone after
\* the call.
result_self_consuming(f, k) ==
  IF k # None
  THEN [f EXCEPT !.last = SelectSeq(@, LAMBDA e : e[1] # k)]
  ELSE f

\* The tracker as result(k) leaves it: the method assigns no attribute.
result_self(f, k) == f

\* reset_last clearing initial as well.
reset_last_both(f) == [initial |-> <<>>, last |-> <<>>]

reset_last(f) == [f EXCEPT !.last = <<>>]

\* reset clearing last alone.
reset_keeps_initial(f) == [f EXCEPT !.last = <<>>]

reset(f) == [initial |-> <<>>, last |-> <<>>]


\* ----------------------------------- Accuracy and Mean (avalanche metrics)
\* The running accuracy of the current evaluation experience is kept as the
\* scalar its result() returns: 0 once reset, and after a minibatch any
\* accuracy the minibatches seen so far can average to.
Accuracy_reset == 0

Accuracy_update(acc, a) == a

Mean_init == [summed |-> 0, weight |-> 0]

Mean_reset(mn) == [summed |-> 0, weight |-> 0]

\* Raises (TypeError) when value is not a number.
Mean_update(mn, value, weight) ==
  [summed |-> mn.summed + value.val * weight, weight |-> mn.weight + weight]

\* The weighted mean summed / weight, kept as the two numbers; undefined
\* when no sample was added.
Mean_result(mn) ==
  IF mn.weight = 0
  THEN NoneVal
  ELSE [tag |-> "mean", summed |-> mn.summed, weight |-> mn.weight]

\* ------------------------------------------------ result records emitted
\* One MetricValue: the experience its name is qualified with (taken by
\* get_metric_name from strategy.experience), the key whose forgetting it
\* carries, and the value.
MetricValue(exp, k, value) ==
  [tag |-> "metric", exp |-> exp, key |-> k, value |-> value]

\* -------------------------------------------- class ExperienceForgetting
ExperienceForgetting_init ==
  [forgetting |-> Forgetting_init, current_accuracy |-> Accuracy_reset,
   eval_exp_id |-> None, train_exp_id |-> None]

ExperienceForgetting_reset_last_accuracy(m) == [m EXCEPT !.forgetting = reset_last(@)]

ExperienceForgetting_update(m, k, v, initial) ==
  [m EXCEPT !.forgetting = update(@, k, v, initial)]

ExperienceForgetting_result(m, k) == result(m.forgetting, k)

ExperienceForgetting_before_training_exp(m, strategy_exp) ==
  [m EXCEPT !.train_exp_id = strategy_exp]

\* before_eval resetting the whole tracker.
ExperienceForgetting_before_eval_reset(m) == [m EXCEPT !.forgetting = reset(@)]

ExperienceForgetting_before_eval(m) == ExperienceForgetting_reset_last_accuracy(m)

ExperienceForgetting_before_eval_exp(m) == [m EXCEPT !.current_accuracy = Accuracy_reset]

ExperienceForgetting_after_eval_iteration(m, strategy_exp, a) ==
  [m EXCEPT !.eval_exp_id = strategy_exp,
            !.current_accuracy = Accuracy_update(@, a)]

ExperienceForgetting_package_result(m, strategy_exp) ==
  MetricValue(strategy_exp, m.eval_exp_id, ExperienceForgetting_result(m, m.eval_exp_id))

\* after_eval_exp recording the accuracy of the experience just trained as
\* its last value too.
ExperienceForgetting_after_eval_exp_both(m) ==
  IF m.train_exp_id = m.eval_exp_id
  THEN ExperienceForgetting_update(
         ExperienceForgetting_update(m, m.eval_exp_id, m.current_accuracy, TRUE),
         m.eval_exp_id, m.current_accuracy, FALSE)
  ELSE ExperienceForgetting_update(m, m.eval_exp_id, m.current_accuracy, FALSE)

\* The metric after after_eval_exp.
ExperienceForgetting_after_eval_exp(m) ==
  IF m.train_exp_id = m.eval_exp_id
  THEN ExperienceForgetting_update(m, m.eval_exp_id, m.current_accuracy, TRUE)
  ELSE ExperienceForgetting_update(m, m.eval_exp_id, m.current_accuracy, FALSE)

\* What after_eval_exp returns, m being the metric it leaves.
ExperienceForgetting_after_eval_exp_return(m, strategy_exp) ==
  IF ExperienceForgetting_result(m, m.eval_exp_id) # NoneVal
  THEN ExperienceForgetting_package_result(m, strategy_exp)
  ELSE NoneVal

\* ------------------------------------------------ class StreamForgetting
StreamForgetting_init ==
  [stream_forgetting |-> Mean_init, forgetting |-> Forgetting_init,
   current_accuracy |-> Accuracy_reset,
   eval_exp_id |-> None, train_exp_id |-> None]

StreamForgetting_reset_last_accuracy(m) == [m EXCEPT !.forgetting = reset_last(@)]

StreamForgetting_exp_update(m, k, v, initial) ==
  [m EXCEPT !.forgetting = update(@, k, v, initial)]

StreamForgetting_exp_result(m, k) == result(m.forgetting, k)

StreamForgetting_result(m) == Mean_result(m.stream_forgetting)

StreamForgetting_before_training_exp(m, strategy_exp) ==
  [m EXCEPT !.train_exp_id = strategy_exp]

StreamForgetting_before_eval(m) ==
  [StreamForgetting_reset_last_accuracy(m) EXCEPT !.stream_forgetting = Mean_reset(@)]

StreamForgetting_before_eval_exp(m) == [m EXCEPT !.current_accuracy = Accuracy_reset]

StreamForgetting_after_eval_iteration(m, strategy_exp, a) ==
  [m EXCEPT !.eval_exp_id = strategy_exp,
            !.current_accuracy = Accuracy_update(@, a)]

\* The tracker update of after_eval_exp recording every accuracy as last.
StreamForgetting_after_eval_exp_update_last(m) ==
  StreamForgetting_exp_update(m, m.eval_exp_id, m.current_accuracy, FALSE)

\* The metric after the tracker update that opens after_eval_exp.
StreamForgetting_after_eval_exp_update(m) ==
  IF m.train_exp_id = m.eval_exp_id
  THEN StreamForgetting_exp_update(m, m.eval_exp_id, m.current_accuracy, TRUE)
  ELSE StreamForgetting_exp_update(m, m.eval_exp_id, m.current_accuracy, FALSE)

\* after_eval_exp feeds the mean, u being the metric after the update.
StreamForgetting_feeds(u) == StreamForgetting_exp_result(u, u.eval_exp_id) # NoneVal

\* after_eval_exp raises: the value fed to the mean is no number (the dict
\* result() returns for k = None).
StreamForgetting_after_eval_exp_raises(m) ==
  LET u == StreamForgetting_after_eval_exp_update(m)
  IN  StreamForgetting_feeds(u) /\ StreamForgetting_exp_result(u, u.eval_exp_id).tag # "float"

\* after_eval_exp feeding 0 to the mean where the forgetting is undefined.
StreamForgetting_after_eval_exp_zero(m) ==
  LET u == StreamForgetting_after_eval_exp_update(m)
  IN  IF StreamForgetting_after_eval_exp_raises(m)
      THEN u
      ELSE [u EXCEPT !.stream_forgetting =
              Mean_update(@, IF StreamForgetting_feeds(u)
                             THEN StreamForgetting_exp_result(u, u.eval_exp_id)
                             ELSE Float(0), 1)]

\* The metric after after_eval_exp (where it raises: as the raise leaves it).
StreamForgetting_after_eval_exp(m) ==
  LET u == StreamForgetting_after_eval_exp_update(m)
  IN  IF StreamForgetting_feeds(u) /\ ~StreamForgetting_after_eval_exp_raises(m)
      THEN [u EXCEPT !.stream_forgetting =
              Mean_update(@, StreamForgetting_exp_result(u, u.eval_exp_id), 1)]
      ELSE u

StreamForgetting_package_result(m) == MetricValue(None, None, StreamForgetting_result(m))

\* after_eval returning nothing while the mean has no sample.
StreamForgetting_after_eval_defined(m) ==
  IF StreamForgetting_result(m) = NoneVal
  THEN NoneVal
  ELSE StreamForgetting_package_result(m)

StreamForgetting_after_eval(m) == StreamForgetting_package_result(m)

\* ------------------------------------------------------ forgetting_metrics
\* The list of plugin metrics, each a new instance, named by its class.
forgetting_metrics(experience_flag, stream_flag) ==
  (IF experience_flag THEN <<"ExperienceForgetting">> ELSE <<>>)
  \o (IF stream_flag THEN <<"StreamForgetting">> ELSE <<>>)

\* A new instance of a plugin metric class: the object the interpreter
\* allocates, n_objects having been allocated before, as __init__ leaves it.
Construct(class, n_objects) ==
  [class |-> class, id |-> n_objects + 1,
   state |-> IF class = "ExperienceForgetting"
             THEN ExperienceForgetting_init
             ELSE StreamForgetting_init]

\* forgetting_metrics handing out one instance per class, made on first use
\* and returned by every call.
forgetting_metrics_shared(experience_flag, stream_flag, n_objects) ==
  LET classes == forgetting_metrics(experience_flag, stream_flag)
  IN  [i \in 1..Len(classes) |->
         Construct(classes[i],
                   IF classes[i] = "ExperienceForgetting" THEN 0 ELSE 1)]

\* The list one call of forgetting_metrics returns, n_objects objects having
\* been allocated before the call.
forgetting_metrics_instances(experience_flag, stream_flag, n_objects) ==
  LET classes == forgetting_metrics(experience_flag, stream_flag)
  IN  [i \in 1..Len(classes) |-> Construct(classes[i], n_objects + i - 1)]

\* ------------------------------------------------------------------ state
VARIABLES
  fg,            \* a standalone Forgetting instance
  op,            \* the last call on fg: the method reached, its arguments, its result
  h_initial,     \* per key: the value last given as initial since reset()
  h_last,        \* per key: the value last given as last since reset_last()
  n_updates,     \* per key: calls of update(k, ..) so far, counted to 2
  first_value,   \* per key: the first value update(k, ..) recorded
  last_value,    \* per key: the latest value update(k, ..) recorded
  only_update,   \* fg has been changed through update(k, v) alone
  pending,       \* keys with no update_last since the latest reset_last()
  had_last,      \* keys that had a last entry when reset_last() was called
  kept,          \* initial as reset_last() left it, until initial is next written
  fresh,         \* a Forgetting constructed when fg was constructed or
                 \* fg.reset() last called, and given every call on fg since
  cleared        \* entries the call just made removed from fg

tracker_vars == <<fg, op, h_initial, h_last, n_updates, first_value,
                  last_value, only_update, pending, had_last, kept, fresh,
                  cleared>>

VARIABLES
  metrics,       \* the plugin metrics attached: forgetting_metrics(..)
  ef,            \* the ExperienceForgetting plugin metric (when attached)
  sf,            \* the StreamForgetting plugin metric (when attached)
  experience,    \* strategy.experience.current_experience
  pc,            \* where the strategy's loop stands
  e_out,         \* what the latest callback of ef returned
  s_out,         \* what the latest callback of sf returned
  n_trains,      \* before_training_exp calls so far
  n_streams,     \* before_eval calls so far
  n_exps,        \* experiences evaluated in the current eval stream
  trained,       \* experiences before_training_exp was called on
  iterated,      \* the experience being evaluated has had a minibatch
  fed,           \* the <<key, forgetting>> pairs defined at the
                 \* after_eval_exp events of the current eval stream
  played6,       \* events of Script6 played so far; None once left
  played5,       \* events of Script5 played so far; None once left
  s_emitted      \* records sf has returned since the latest before_eval

plugin_vars == <<metrics, ef, sf, experience, pc, e_out, s_out, n_trains,
                 n_streams, n_exps, trained, iterated, fed, played6, played5,
                 s_emitted>>

VARIABLES
  returned,      \* the calls of forgetting_metrics so far: the flags given
                 \* and the list returned
  n_objects      \* plugin metric objects allocated so far

selector_vars == <<returned, n_objects>>

vars == <<tracker_vars, plugin_vars, selector_vars>>

NoKey == [k \in Keys |-> None]

Call(name, k, v, ret) == [name |-> name, k |-> k, v |-> v, ret |-> ret]

InitTracker ==
  /\ fg = Forgetting_init
  /\ op = Call("__init__", None, None, NoneVal)
  /\ h_initial = NoKey
  /\ h_last = NoKey
  /\ n_updates = [k \in Keys |-> 0]
  /\ first_value = NoKey
  /\ last_value = NoKey
  /\ only_update = TRUE
  /\ pending = {}
  /\ had_last = {}
  /\ kept = <<>>
  /\ fresh = Forgetting_init
  /\ cleared = 0

DropCount ==
  /\ only_update' = FALSE
  /\ n_updates' = [k \in Keys |-> 0]
  /\ first_value' = NoKey
  /\ last_value' = NoKey

\* The record of update() calls is kept while fg has been changed through
\* update(k, v) with the default initial=False alone, and dropped by any
\* other change.
CountUpdate(k, v, initial) ==
  IF only_update /\ ~initial
  THEN /\ n_updates' = [n_updates EXCEPT ![k] = IF @ < 2 THEN @ + 1 ELSE @]
       /\ first_value' = [first_value EXCEPT ![k] = IF @ = None THEN v ELSE @]
       /\ last_value' = [last_value EXCEPT ![k] = v]
       /\ UNCHANGED only_update
  ELSE DropCount

T_update_initial(k, v) ==
  /\ fg' = update_initial(fg, k, v)
  /\ fresh' = update_initial(fresh, k, v)
  /\ cleared' = 0
  /\ op' = Call("update_initial", k, v, NoneVal)
  /\ h_initial' = [h_initial EXCEPT ![k] = v]
  /\ DropCount
  /\ had_last' = {}
  /\ kept' = <<>>
  /\ UNCHANGED <<h_last, pending>>
  /\ UNCHANGED plugin_vars
  /\ UNCHANGED selector_vars

T_update_last(k, v) ==
  /\ fg' = update_last(fg, k, v)
  /\ fresh' = update_last(fresh, k, v)
  /\ cleared' = 0
  /\ op' = Call("update_last", k, v, NoneVal)
  /\ h_last' = [h_last EXCEPT ![k] = v]
  /\ DropCount
  /\ pending' = pending \ {k}
  /\ UNCHANGED <<h_initial, had_last, kept>>
  /\ UNCHANGED plugin_vars
  /\ UNCHANGED selector_vars

T_update(k, v, initial) ==
  /\ fg' = update(fg, k, v, initial)
  /\ fresh' = update(fresh, k, v, initial)
  /\ cleared' = 0
  /\ op' = Call(IF initial THEN "update_initial" ELSE "update_last",
                k, v, NoneVal)
  /\ h_initial' = IF initial THEN [h_initial EXCEPT ![k] = v] ELSE h_initial
  /\ h_last' = IF initial THEN h_last ELSE [h_last EXCEPT ![k] = v]
  /\ pending' = IF initial THEN pending ELSE pending \ {k}
  /\ CountUpdate(k, v, initial)
  /\ had_last' = IF initial THEN {} ELSE had_last
  /\ kept' = IF initial THEN <<>> ELSE kept
  /\ UNCHANGED plugin_vars
  /\ UNCHANGED selector_vars

T_result(k) ==
  /\ op' = Call("result", k, None, result(fg, k))
  /\ fg' = result_self(fg, k)
  /\ fresh' = result_self(fresh, k)
  /\ UNCHANGED <<h_initial, h_last, n_updates, first_value, last_value,
                 only_update, pending, had_last, kept>>
  /\ cleared' = 0
  /\ UNCHANGED plugin_vars
  /\ UNCHANGED selector_vars

T_reset_last ==
  /\ fg' = reset_last(fg)
  /\ fresh' = reset_last(fresh)
  /\ cleared' = Len(fg.last)
  /\ op' = Call("reset_last", None, None, NoneVal)
  /\ h_last' = NoKey
  /\ DropCount
  /\ pending' = Keys
  /\ had_last' = dict_keys(fg.last)
  /\ kept' = fg.initial
  /\ UNCHANGED <<h_initial>>
  /\ UNCHANGED plugin_vars
  /\ UNCHANGED selector_vars

T_reset ==
  /\ fg' = reset(fg)
  /\ fresh' = Forgetting_init
  /\ cleared' = Len(fg.initial) + Len(fg.last)
  /\ op' = Call("reset", None, None, NoneVal)
  /\ h_initial' = NoKey
  /\ h_last' = NoKey
  /\ DropCount
  /\ had_last' = {}
  /\ kept' = <<>>
  /\ UNCHANGED <<pending>>
  /\ UNCHANGED plugin_vars
  /\ UNCHANGED selector_vars

NextTracker ==
  \/ \E k \in Keys, v \in Vals : T_update_initial(k, v)
  \/ \E k \in Keys, v \in Vals : T_update_last(k, v)
  \/ \E k \in Keys, v \in Vals, initial \in BOOLEAN : T_update(k, v, initial)
  \/ \E k \in Keys \cup {None} : T_result(k)
  \/ T_reset_last
  \/ T_reset

\* ------------------------------------------------- the strategy's loop
\* The callbacks reach both plugin metrics, ExperienceForgetting first, in
\* the order of the strategy's loop: before_training_exp, [training],
\* before_eval, {before_eval_exp, after_eval_iteration*, after_eval_exp}*,
\* after_eval.

Ev(hook, k, a) == <<hook, k, a>>

\* train 0; an eval stream measuring 0.9 on experience 0; a second eval
\* stream measuring 0.7 on experience 0.
Script1 ==
  <<Ev("before_training_exp", 0, None),
    Ev("before_eval", None, None), Ev("before_eval_exp", 0, None),
    Ev("after_eval_iteration", None, 9), Ev("after_eval_exp", None, None),
    Ev("after_eval", None, None),
    Ev("before_eval", None, None), Ev("before_eval_exp", 0, None),
    Ev("after_eval_iteration", None, 7), Ev("after_eval_exp", None, None)>>

\* Script1; then train 1 and a third eval stream measuring 0.7 on
\* experience 0 again.
Script6 ==
  Script1 \o
  <<Ev("after_eval", None, None),
    Ev("before_training_exp", 1, None),
    Ev("before_eval", None, None), Ev("before_eval_exp", 0, None),
    Ev("after_eval_iteration", None, 7), Ev("after_eval_exp", None, None)>>

\* train 0 and measure 0.9 on it; train 1 and measure 0.8 on it; a later
\* eval stream measuring 0.7 on experience 0 and 0.5 on experience 1.
Script5 ==
  <<Ev("before_training_exp", 0, None),
    Ev("before_eval", None, None), Ev("before_eval_exp", 0, None),
    Ev("after_eval_iteration", None, 9), Ev("after_eval_exp", None, None),
    Ev("after_eval", None, None),
    Ev("before_training_exp", 1, None),
    Ev("before_eval", None, None), Ev("before_eval_exp", 1, None),
    Ev("after_eval_iteration", None, 8), Ev("after_eval_exp", None, None),
    Ev("after_eval", None, None),
    Ev("before_eval", None, None), Ev("before_eval_exp", 0, None),
    Ev("after_eval_iteration", None, 7), Ev("after_eval_exp", None, None),
    Ev("before_eval_exp", 1, None),
    Ev("after_eval_iteration", None, 5), Ev("after_eval_exp", None, None),
    Ev("after_eval", None, None)>>

Played(script, played, ev) ==
  IF played # None /\ played < Len(script) /\ script[played + 1] = ev
  THEN played + 1
  ELSE None

Play(ev) ==
  /\ played6' = Played(Script6, played6, ev)
  /\ played5' = Played(Script5, played5, ev)

Attached(class) == \E i \in 1..Len(metrics) : metrics[i] = class

has_ef == Attached("ExperienceForgetting")

has_sf == Attached("StreamForgetting")

InitPlugins ==
  /\ metrics \in {forgetting_metrics(e, s) : e \in BOOLEAN, s \in BOOLEAN}
  /\ ef = ExperienceForgetting_init
  /\ sf = StreamForgetting_init
  /\ experience = None
  /\ pc = "idle"
  /\ e_out = NoneVal
  /\ s_out = NoneVal
  /\ n_trains = 0
  /\ n_streams = 0
  /\ n_exps = 0
  /\ trained = {}
  /\ iterated = FALSE
  /\ fed = <<>>
  /\ played6 = 0
  /\ played5 = 0
  /\ s_emitted = 0

Emitted(out) == IF out.tag = "metric" THEN 1 ELSE 0

before_training_exp(k) ==
  /\ pc = "idle"
  /\ n_trains < MaxTrains
  /\ experience' = k
  /\ ef' = IF has_ef THEN ExperienceForgetting_before_training_exp(ef, k)
           ELSE ef
  /\ sf' = IF has_sf THEN StreamForgetting_before_training_exp(sf, k) ELSE sf
  /\ e_out' = NoneVal
  /\ s_out' = NoneVal
  /\ n_trains' = n_trains + 1
  /\ trained' = trained \cup {k}
  /\ Play(Ev("before_training_exp", k, None))
  /\ s_emitted' = s_emitted + Emitted(s_out')
  /\ UNCHANGED <<metrics, pc, n_streams, n_exps, iterated, fed>>
  /\ UNCHANGED tracker_vars
  /\ UNCHANGED selector_vars

before_eval(max_streams) ==
  /\ pc = "idle"
  /\ n_streams < max_streams
  /\ pc' = "eval"
  /\ ef' = IF has_ef THEN ExperienceForgetting_before_eval(ef) ELSE ef
  /\ sf' = IF has_sf THEN StreamForgetting_before_eval(sf) ELSE sf
  /\ e_out' = NoneVal
  /\ s_out' = NoneVal
  /\ n_streams' = n_streams + 1
  /\ n_exps' = 0
  /\ fed' = <<>>
  /\ Play(Ev("before_eval", None, None))
  /\ s_emitted' = Emitted(s_out')
  /\ UNCHANGED <<metrics, experience, n_trains, trained, iterated>>
  /\ UNCHANGED tracker_vars
  /\ UNCHANGED selector_vars

before_eval_exp(k) ==
  /\ pc = "eval"
  /\ n_exps < MaxEvalExps
  /\ pc' = "eval_exp"
  /\ experience' = k
  /\ ef' = IF has_ef THEN ExperienceForgetting_before_eval_exp(ef) ELSE ef
  /\ sf' = IF has_sf THEN StreamForgetting_before_eval_exp(sf) ELSE sf
  /\ e_out' = NoneVal
  /\ s_out' = NoneVal
  /\ n_exps' = n_exps + 1
  /\ iterated' = FALSE
  /\ Play(Ev("before_eval_exp", k, None))
  /\ s_emitted' = s_emitted + Emitted(s_out')
  /\ UNCHANGED <<metrics, n_trains, n_streams, trained, fed>>
  /\ UNCHANGED tracker_vars
  /\ UNCHANGED selector_vars

\* One minibatch, after which the running accuracy is a.
after_eval_iteration(a) ==
  /\ pc = "eval_exp"
  /\ ef' = IF has_ef
           THEN ExperienceForgetting_after_eval_iteration(ef, experience, a)
           ELSE ef
  /\ sf' = IF has_sf
           THEN StreamForgetting_after_eval_iteration(sf, experience, a)
           ELSE sf
  /\ e_out' = NoneVal
  /\ s_out' = NoneVal
  /\ iterated' = TRUE
  /\ Play(Ev("after_eval_iteration", None, a))
  /\ s_emitted' = s_emitted + Emitted(s_out')
  /\ UNCHANGED <<metrics, experience, pc, n_trains, n_streams, n_exps,
                 trained, fed>>
  /\ UNCHANGED tracker_vars
  /\ UNCHANGED selector_vars

\* An exception sf raises ends the strategy's loop.
after_eval_exp ==
  /\ pc = "eval_exp"
  /\ ef' = IF has_ef THEN ExperienceForgetting_after_eval_exp(ef) ELSE ef
  /\ e_out' = IF has_ef
              THEN ExperienceForgetting_after_eval_exp_return(ef', experience)
              ELSE NoneVal
  /\ sf' = IF has_sf THEN StreamForgetting_after_eval_exp(sf) ELSE sf
  /\ s_out' = NoneVal
  /\ pc' = IF has_sf /\ StreamForgetting_after_eval_exp_raises(sf)
           THEN "raised" ELSE "eval"
  /\ fed' = LET r == StreamForgetting_exp_result(sf', sf'.eval_exp_id)
            IN  IF has_sf /\ r.tag = "float"
                THEN Append(fed, <<sf'.eval_exp_id, r.val>>)
                ELSE fed
  /\ Play(Ev("after_eval_exp", None, None))
  /\ s_emitted' = s_emitted + Emitted(s_out')
  /\ UNCHANGED <<metrics, experience, n_trains, n_streams, n_exps, trained,
                 iterated>>
  /\ UNCHANGED tracker_vars
  /\ UNCHANGED selector_vars

after_eval ==
  /\ pc = "eval"
  /\ pc' = "idle"
  /\ e_out' = NoneVal
  /\ s_out' = IF has_sf THEN StreamForgetting_after_eval(sf) ELSE NoneVal
  /\ Play(Ev("after_eval", None, None))
  /\ s_emitted' = s_emitted + Emitted(s_out')
  /\ UNCHANGED <<metrics, ef, sf, experience, n_trains, n_streams, n_exps,
                 trained, iterated, fed>>
  /\ UNCHANGED tracker_vars
  /\ UNCHANGED selector_vars

Loop(max_streams, accs) ==
  \/ \E k \in Keys : before_training_exp(k)
  \/ before_eval(max_streams)
  \/ \E k \in Keys : before_eval_exp(k)
  \/ \E a \in accs : after_eval_iteration(a)
  \/ after_eval_exp
  \/ after_eval

Next == Loop(MaxStreams, Accs)

\* Longer runs with the accuracies of the scripted scenarios.
NextScripts == Loop(ScriptStreams, ScriptAccs)

\* The attached metrics are the list the first call of forgetting_metrics
\* returned.
InitSelector ==
  \E e \in BOOLEAN, s \in BOOLEAN :
    /\ metrics = forgetting_metrics(e, s)
    /\ returned = <<[experience |-> e, stream |-> s,
                     list |-> forgetting_metrics_instances(e, s, 0)]>>
    /\ n_objects = Len(metrics)

\* One more call of forgetting_metrics(experience=e, stream=s).
call_forgetting_metrics(e, s) ==
  /\ Len(returned) < MaxCalls
  /\ returned' = Append(returned,
                    [experience |-> e, stream |-> s,
                     list |-> forgetting_metrics_instances(e, s, n_objects)])
  /\ n_objects' = n_objects + Len(forgetting_metrics(e, s))
  /\ UNCHANGED tracker_vars
  /\ UNCHANGED plugin_vars

NextSelector == \E e \in BOOLEAN, s \in BOOLEAN : call_forgetting_metrics(e, s)

Init == InitTracker /\ InitPlugins /\ InitSelector

Spec == Init /\ [][Next]_vars

SpecScripts == Init /\ [][NextScripts]_vars

\* A tracker used on its own; no metric is attached to a strategy and the
\* plugin variables never change.
InitStandalone == Init /\ metrics = forgetting_metrics(FALSE, FALSE)

SpecTracker == InitStandalone /\ [][NextTracker]_vars

SpecSelector == Init /\ [][NextSelector]_vars

\* ------------------------------------------------------ the plugins' claims

\* C1: played from the start with ExperienceForgetting attached, Script1
\* leaves the forgetting of key 0 undefined and emits nothing at the
\* after_eval_exp of its first eval stream, and emits the forgetting
\* 0.9 - 0.7 = 0.2 for key 0 at the after_eval_exp of its second eval stream.
C1_Script1 ==
  has_ef =>
    /\ played6 = 5 =>
         e_out = NoneVal /\ ExperienceForgetting_result(ef, 0) = NoneVal
    /\ played6 = Len(Script1) => e_out = MetricValue(0, 0, Float(2))

\* C2: after_eval_exp of ExperienceForgetting returns one record, carrying
\* initial[key] - last[key], when the key just evaluated is in both initial
\* and last, and returns nothing otherwise.
C2_EmitIffBoth ==
  [][(pc = "eval_exp" /\ pc' # "eval_exp") =>
       LET k == ef'.eval_exp_id
           f == ef'.forgetting
       IN  IF k \in dict_keys(f.initial) /\ k \in dict_keys(f.last)
           THEN e_out' = MetricValue(experience, k,
                           Float(dict_get(f.initial, k) - dict_get(f.last, k)))
           ELSE e_out' = NoneVal
    ]_vars

C5_Script5 ==
  (has_sf /\ played5 = Len(Script5)) =>
    /\ StreamForgetting_exp_result(sf, 0) = Float(2)
    /\ StreamForgetting_exp_result(sf, 1) = Float(3)
    /\ s_out.tag = "metric" /\ s_out.value.tag = "mean"
    /\ 2 * s_out.value.summed = 5 * s_out.value.weight

\* C6: the forgetting reported for an experience is the accuracy measured
\* right after its first training minus the accuracy measured on it in the
\* current eval stream.  Script6 measures 0.9 on experience 0 right after
\* training it, 0.7 in a second eval stream, and, after training
\* experience 1, 0.7 again: the record emitted there carries 0.9 - 0.7.
C6_FirstTraining ==
  (has_ef /\ played6 = Len(Script6)) => e_out = MetricValue(0, 0, Float(2))

\* C12: StreamForgetting returns one record in each eval stream: after_eval
\* returns one record carrying the current result of the mean, and no other
\* callback returns a record, after_eval_exp neither when it feeds the mean
\* nor when it does not.
C12_OneRecord ==
  /\ [](has_sf =>
          /\ pc \in {"eval", "eval_exp", "raised"} => s_emitted = 0
          /\ (pc = "idle" /\ n_streams > 0) => s_emitted = 1)
  /\ [][has_sf =>
          IF pc = "eval" /\ pc' = "idle"
          THEN s_out' = MetricValue(None, None, Mean_result(sf.stream_forgetting))
          ELSE s_out' = NoneVal
       ]_vars

\* after_eval has returned the one record of the second eval stream, in
\* which after_eval_exp fed the mean for one experience and not for the
\* other.
C12_Witness ==
  /\ has_sf /\ pc = "idle" /\ n_streams = 2 /\ n_exps = 2
  /\ s_emitted = 1 /\ s_out.tag = "metric"
  /\ Len(fed) = 1 /\ sf.stream_forgetting.weight = 1

\* C14: every call of forgetting_metrics returns, in this order, a new
\* ExperienceForgetting exactly when experience is true and a new
\* StreamForgetting exactly when stream is true (the empty list when both
\* are false), each as its constructor leaves it; no instance is returned
\* twice, by one call or by two.
C14_Selector ==
  /\ \A c \in 1..Len(returned) :
       LET r == returned[c]
           n == (IF r.experience THEN 1 ELSE 0) + (IF r.stream THEN 1 ELSE 0)
       IN  /\ Len(r.list) = n
           /\ r.experience =>
                /\ r.list[1].class = "ExperienceForgetting"
                /\ r.list[1].state = ExperienceForgetting_init
           /\ r.stream =>
                /\ r.list[n].class = "StreamForgetting"
                /\ r.list[n].state = StreamForgetting_init
  /\ \A c, d \in 1..Len(returned) :
       \A i \in 1..Len(returned[c].list), j \in 1..Len(returned[d].list) :
         returned[c].list[i].id = returned[d].list[j].id => (c = d /\ i = j)

\* Two calls with both flags true, a call with both false and a call with
\* stream alone have returned five instances in all.
C14_Witness ==
  /\ Len(returned) = 4 /\ n_objects = 5
  /\ returned[1].experience /\ returned[1].stream
  /\ returned[2].experience /\ returned[2].stream
  /\ ~returned[3].experience /\ ~returned[3].stream /\ returned[3].list = <<>>
  /\ ~returned[4].experience /\ returned[4].stream
  /\ returned[4].list[1].class = "StreamForgetting"

C16_KeyOfBracket ==
  [][(pc = "eval_exp" /\ pc' # "eval_exp") =>
       /\ has_ef =>
            \/ ef'.forgetting =
                 update_initial(ef.forgetting, experience, ef.current_accuracy)
            \/ ef'.forgetting =
                 update_last(ef.forgetting, experience, ef.current_accuracy)
       /\ has_sf =>
            \/ sf'.forgetting =
                 update_initial(sf.forgetting, experience, sf.current_accuracy)
            \/ sf'.forgetting =
                 update_last(sf.forgetting, experience, sf.current_accuracy)
    ]_vars

\* The initial value a tracker holds for k, None where it holds none.
initial_of(f, k) ==
  IF k \in dict_keys(f.initial) THEN dict_get(f.initial, k) ELSE None

LastKeysAllowed(last_before) ==
  IF pc = "idle" /\ pc' = "eval"
  THEN {}
  ELSE dict_keys(last_before)
         \cup (IF pc = "eval_exp" /\ pc' # "eval_exp" THEN {experience} ELSE {})

\* C18: the last mapping of either metric holds only keys of experiences
\* evaluated (from before_eval_exp to after_eval_exp) since the latest
\* before_eval: before_eval empties it and only after_eval_exp adds to it,
\* the key of the experience it closes; so a forgetting returned or fed to
\* the mean is that of the experience just evaluated in the current eval
\* stream, and an experience not visited in it has none.
C18_LastOfStream ==
  [][/\ has_ef =>
          /\ dict_keys(ef'.forgetting.last)
               \subseteq LastKeysAllowed(ef.forgetting.last)
          /\ e_out'.tag = "metric" => e_out'.key = experience
     /\ has_sf =>
          /\ dict_keys(sf'.forgetting.last)
               \subseteq LastKeysAllowed(sf.forgetting.last)
          /\ Len(fed') > Len(fed) => fed'[Len(fed')][1] = experience
    ]_vars

\* C19: before_eval empties last and leaves initial, the key just trained
\* and the key just evaluated of either metric as they were;
\* before_training_exp sets the key just trained to the experience about
\* to be trained and changes nothing else of either metric.
C19_Frames ==
  [][/\ (pc = "idle" /\ pc' = "eval") =>
          /\ has_ef =>
               /\ ef'.forgetting.last = <<>>
               /\ ef'.forgetting.initial = ef.forgetting.initial
               /\ ef'.train_exp_id = ef.train_exp_id
               /\ ef'.eval_exp_id = ef.eval_exp_id
          /\ has_sf =>
               /\ sf'.forgetting.last = <<>>
               /\ sf'.forgetting.initial = sf.forgetting.initial
               /\ sf'.train_exp_id = sf.train_exp_id
               /\ sf'.eval_exp_id = sf.eval_exp_id
     /\ n_trains' # n_trains =>
          /\ has_ef => ef' = [ef EXCEPT !.train_exp_id = experience']
          /\ has_sf => sf' = [sf EXCEPT !.train_exp_id = experience']
    ]_vars

\* before_eval has just opened the second eval stream: the first one
\* recorded 0.9 as initial for experience 0, trained, and a last value for
\* experience 1; the initial value and both keys are kept, last is empty.
C19_Witness ==
  /\ has_ef /\ has_sf /\ pc = "eval" /\ n_exps = 0 /\ n_streams = 2
  /\ trained = {0}
  /\ ef.train_exp_id = 0 /\ ef.eval_exp_id = 1
  /\ sf.train_exp_id = 0 /\ sf.eval_exp_id = 1
  /\ ef.forgetting = [initial |-> <<(<<0, 9>>)>>, last |-> <<>>]
  /\ sf.forgetting = [initial |-> <<(<<0, 9>>)>>, last |-> <<>>]

\* C20: attached together, ExperienceForgetting and StreamForgetting hold
\* the same initial and last, the same key just trained and the same key
\* just evaluated after every callback; at after_eval_exp StreamForgetting
\* feeds its mean exactly when ExperienceForgetting returns a record, and
\* the value fed is the value the record carries.
C20_SameLogic ==
  /\ []((has_ef /\ has_sf) =>
          /\ ef.forgetting = sf.forgetting
          /\ ef.train_exp_id = sf.train_exp_id
          /\ ef.eval_exp_id = sf.eval_exp_id
          /\ ef.current_accuracy = sf.current_accuracy)
  /\ [][(has_ef /\ has_sf /\ pc = "eval_exp" /\ pc' # "eval_exp") =>
          LET value == StreamForgetting_exp_result(sf', sf'.eval_exp_id)
          IN  /\ StreamForgetting_feeds(sf') <=> e_out'.tag = "metric"
              /\ StreamForgetting_feeds(sf') =>
                   /\ e_out'.value = value
                   /\ e_out'.key = sf'.eval_exp_id
                   /\ value.tag = "float" =>
                        sf'.stream_forgetting =
                          Mean_update(sf.stream_forgetting, value, 1)
              /\ ~StreamForgetting_feeds(sf') =>
                   sf'.stream_forgetting = sf.stream_forgetting
       ]_vars

\* Both attached: at the after_eval_exp of experience 0 in the second eval
\* stream ExperienceForgetting returned 0.9 - 0.7 and StreamForgetting fed
\* it to its mean.
C20_Witness ==
  /\ has_ef /\ has_sf /\ pc = "eval" /\ n_streams = 2 /\ n_exps = 1
  /\ e_out = MetricValue(0, 0, Float(2))
  /\ sf.stream_forgetting = [summed |-> 2, weight |-> 1]
  /\ ef.train_exp_id = 1 /\ ef.eval_exp_id = 0
  /\ ef.forgetting = [initial |-> <<(<<0, 9>>)>>, last |-> <<(<<0, 7>>)>>]
  /\ sf.forgetting = ef.forgetting

\* ------------------------------------------------------ the tracker's claims

C9_UpdatedTwice ==
  only_update =>
    \A k \in Keys :
      IF n_updates[k] >= 2
      THEN /\ result(fg, k) = Float(first_value[k] - last_value[k])
           /\ k \in DOMAIN result(fg, None).val
      ELSE result(fg, k) = NoneVal

\* C10: reset_last() leaves initial as it was and empties last; result(k)
\* is then None for every key and stays None until update_last(k, v), which
\* makes it the kept initial[k] - v.
C10_ResetLast ==
  [][/\ op'.name = "reset_last" =>
          /\ fg'.initial = fg.initial
          /\ fg'.last = <<>>
          /\ \A k \in Keys : result(fg', k) = NoneVal
     /\ \A k \in pending' : result(fg', k) = NoneVal
     /\ \A k \in pending :
          (op'.name = "update_last" /\ op'.k = k /\ k \in dict_keys(kept')) =>
            result(fg', k) = Float(dict_get(kept', k) - op'.v)
    ]_vars

\* update_last(0, 7) was called after a reset_last() that dropped key 0's
\* last value and kept its initial value 9.
C10_Witness ==
  /\ op.name = "update_last" /\ op.k = 0 /\ op.v = 7
  /\ 0 \in had_last /\ 0 \notin pending
  /\ 0 \in dict_keys(kept) /\ dict_get(kept, 0) = 9
  /\ result(fg, 0) = Float(2)

\* C11: reset() empties initial and last: right after it result() is the
\* empty mapping and result(k) is None for every key, and every call made
\* since returns what it returns on a tracker constructed at the moment of
\* the reset and given the same calls.
C11_Reset ==
  /\ op.name = "reset" =>
       /\ fg.initial = <<>> /\ fg.last = <<>>
       /\ result(fg, None) = Dict(<<>>)
       /\ \A k \in Keys : result(fg, k) = NoneVal
  /\ \A k \in Keys \cup {None} : result(fg, k) = result(fresh, k)
  /\ op.name = "result" => op.ret = result(fresh, op.k)

\* reset() has just cleared a tracker holding an initial and a last value
\* for every key.
C11_Witness ==
  /\ op.name = "reset" /\ cleared = 2 * Cardinality(Keys)
  /\ fg = Forgetting_init /\ fresh = Forgetting_init

====
